---- MODULE Spec2Model ----
(***************************************************************************)
(* Model of nonlinear_solvers/solvers.py: newton_raphson, bisection and    *)
(* the composite solve.                                                    *)
(*                                                                         *)
(* Numbers are exact rationals <<n, d>> in lowest terms with d > 0, so     *)
(* every arithmetic expression of the source is computed as written, on    *)
(* real values (rounding, overflow to inf and NaN are outside the model).  *)
(* The callables f and df are drawn from the polynomials                   *)
(*   f(x) = a*x^2 + b*x + c      df(x) = p*x + q                           *)
(* with small integer coefficients; df is independent of f, as in the      *)
(* source, where it is whatever the caller passes.                         *)
(***************************************************************************)
EXTENDS Integers, Sequences, FiniteSets, TLC

VARIABLES f, df, x_0, x_1, eps, max_its_n, max_its_b, nr, bis, sv

vars == <<f, df, x_0, x_1, eps, max_its_n, max_its_b, nr, bis, sv>>

inputs == <<f, df, x_0, x_1, eps, max_its_n, max_its_b>>

(***************************************************************************)
(* Bounds of the input space.                                              *)
(***************************************************************************)
MaxIts == 2

MaxX == 2

MaxC == 2

(***************************************************************************)
(* Exact rational arithmetic: the float operators of the source.           *)
(***************************************************************************)
IAbs(n) == IF n < 0 THEN -n ELSE n

RECURSIVE GCD(_, _)
GCD(m, n) == IF n = 0 THEN m ELSE GCD(n, m % n)

Norm(n, d) ==
    LET g == GCD(IAbs(n), IAbs(d))
        s == IF d < 0 THEN -1 ELSE 1
    IN  <<(s * n) \div g, (s * d) \div g>>

RInt(n) == <<n, 1>>

Zero == RInt(0)

RNeg(p) == <<-p[1], p[2]>>

RAdd(p, q) ==
    LET g == GCD(p[2], q[2])
    IN  Norm(p[1] * (q[2] \div g) + q[1] * (p[2] \div g), p[2] * (q[2] \div g))

RSub(p, q) == RAdd(p, RNeg(q))

RMul(p, q) ==
    LET g1 == GCD(IAbs(p[1]), q[2])
        g2 == GCD(IAbs(q[1]), p[2])
    IN  Norm((p[1] \div g1) * (q[1] \div g2), (p[2] \div g2) * (q[2] \div g1))

RDiv(p, q) == RMul(p, Norm(q[2], q[1]))

RAbs(p) == <<IAbs(p[1]), p[2]>>

RGt(p, q) == p[1] * q[2] > q[1] * p[2]

RLe(p, q) == ~RGt(p, q)

(***************************************************************************)
(* The caller-supplied callables.                                          *)
(***************************************************************************)
F(ff, x) ==
    RAdd(RAdd(RMul(RInt(ff.a), RMul(x, x)), RMul(RInt(ff.b), x)), RInt(ff.c))

DF(dd, x) == RAdd(RMul(RInt(dd.p), x), RInt(dd.q))

Funcs == [a : 0..1, b : 0..1, c : (-MaxC)..MaxC]

Derivs == [p : {0, 2}, q : 0..1]

Points == {RInt(n) : n \in (-MaxX)..MaxX}

\* eps: zero, and two positive tolerances
Tolerances == {Zero, <<1, 4>>, RInt(1)}

\* max_its of newton_raphson. A call takes up to max_its + 2 Newton steps and
\* the fourth step from a quadratic no longer fits 32-bit integers, so the
\* caps stop at 1: a return before the loop, a return after a pass through
\* the loop and the raise are all reached.
NewtonCaps == {0, 1}

BisectionCaps == 0..MaxIts

PyFloat(v) == [type |-> "float", v |-> v]

PyNone == [type |-> "NoneType", v |-> Zero]

Returned(val) == [kind |-> "return", exc |-> "", value |-> val]

Raised(e) == [kind |-> "raise", exc |-> e, value |-> PyNone]

Running == [kind |-> "running", exc |-> "", value |-> PyNone]

(***************************************************************************)
(* newton_raphson                                                          *)
(***************************************************************************)
\* x - f(x)/df(x); the division raises ZeroDivisionError when df(x) = 0.
NewtonStep(ff, dd, x) ==
    LET d == DF(dd, x)
    IN  IF d[1] = 0
        THEN [ok |-> FALSE, v |-> Zero]
        ELSE [ok |-> TRUE, v |-> RSub(x, RDiv(F(ff, x), d))]

\* the step compared without abs()
NRContinue_Signed(e, x, new_x) == RGt(RSub(x, new_x), e)

NRContinue(e, x, new_x) == RGt(RAbs(RSub(x, new_x)), e)

NRExceeded(its, m) == its > m

NRIdle ==
    [pc |-> "idle", exc |-> "", eps |-> Zero, max_its |-> 0, x |-> Zero,
     new_x |-> Zero, current_its |-> 0, iterates |-> <<>>]

\* lines 33-35: the first, unconditional step
NREnter(ff, dd, x0, e, m) ==
    LET s == NewtonStep(ff, dd, x0)
        fr == [NRIdle EXCEPT !.eps = e, !.max_its = m, !.x = x0]
    IN  IF ~s.ok
        THEN [fr EXCEPT !.pc = "raised", !.exc = "ZeroDivisionError"]
        ELSE [fr EXCEPT !.pc = "loop", !.new_x = s.v, !.current_its = 1,
                        !.iterates = <<s.v>>]

\* lines 37-41: one pass through the loop body
NRBody(ff, dd, fr) ==
    LET s == NewtonStep(ff, dd, fr.new_x)
        g == [fr EXCEPT !.x = fr.new_x]
    IN  IF ~s.ok
        THEN [g EXCEPT !.pc = "raised", !.exc = "ZeroDivisionError"]
        ELSE LET h == [g EXCEPT !.new_x = s.v, !.iterates = Append(@, s.v)]
             IN  IF NRExceeded(fr.current_its, fr.max_its)
                 THEN [h EXCEPT !.pc = "raised", !.exc = "ConvergenceError"]
                 ELSE [h EXCEPT !.current_its = @ + 1]

\* line 42
NRReturn(fr) == [fr EXCEPT !.pc = "returned"]

NROutcome(fr) ==
    CASE fr.pc = "returned" -> Returned(PyFloat(fr.new_x))
      [] fr.pc = "raised" -> Raised(fr.exc)
      [] OTHER -> Running

(***************************************************************************)
(* bisection                                                               *)
(***************************************************************************)
\* the function value compared without abs()
BisContinue_Signed(ff, e, new_x) == RGt(F(ff, new_x), e)

BisContinue(ff, e, new_x) == RGt(RAbs(F(ff, new_x)), e)

\* the sign test of the bracket inverted
BisBracketBad_Inverted(ff, x_l, x_r) == RGt(Zero, RMul(F(ff, x_l), F(ff, x_r)))

BisBracketBad(ff, x_l, x_r) == RGt(RMul(F(ff, x_l), F(ff, x_r)), Zero)

Midpoint(x_l, x_r) == RDiv(RAdd(x_r, x_l), RInt(2))

\* the two branches exchanged
BisReplace_Swapped(ff, x_l, x_r, new_x) ==
    IF RGt(RMul(F(ff, new_x), F(ff, x_l)), Zero)
    THEN [x_l |-> x_l, x_r |-> new_x]
    ELSE [x_l |-> new_x, x_r |-> x_r]

\* a zero at the midpoint taken to the left: >= for >
BisReplace_TieLeft(ff, x_l, x_r, new_x) ==
    IF ~RGt(Zero, RMul(F(ff, new_x), F(ff, x_l)))
    THEN [x_l |-> new_x, x_r |-> x_r]
    ELSE [x_l |-> x_l, x_r |-> new_x]

\* lines 79-82: which bound the midpoint replaces
BisReplace(ff, x_l, x_r, new_x) ==
    IF RGt(RMul(F(ff, new_x), F(ff, x_l)), Zero)
    THEN [x_l |-> new_x, x_r |-> x_r]
    ELSE [x_l |-> x_l, x_r |-> new_x]

\* the cap tested one iteration late
BisExceeded_Late(its, m) == its > m + 1

BisExceeded(its, m) == its > m

\* new_x started at the right end
BisInitNewX_Right(x_l, x_r) == x_r

BisInitNewX(x_l, x_r) == x_l

BisIdle ==
    [pc |-> "idle", exc |-> "", x_0 |-> Zero, x_1 |-> Zero, eps |-> Zero,
     max_its |-> 0, x_l |-> Zero, x_r |-> Zero, new_x |-> Zero,
     current_its |-> 0, mids |-> <<>>, checks |-> 0]

\* lines 70-73
BisEnter(x0, x1, e, m) ==
    [BisIdle EXCEPT !.pc = "loop", !.x_0 = x0, !.x_1 = x1, !.eps = e,
                    !.max_its = m, !.x_l = x0, !.x_r = x1,
                    !.new_x = BisInitNewX(x0, x1)]

\* lines 75-85: one pass through the loop body
BisBody(ff, fr) ==
    IF BisBracketBad(ff, fr.x_l, fr.x_r)
    THEN [fr EXCEPT !.pc = "raised", !.exc = "ValueError", !.checks = @ + 1]
    ELSE LET mid == Midpoint(fr.x_l, fr.x_r)
             b == BisReplace(ff, fr.x_l, fr.x_r, mid)
             g == [fr EXCEPT !.new_x = mid, !.x_l = b.x_l, !.x_r = b.x_r,
                             !.mids = Append(@, mid), !.checks = @ + 1]
         IN  IF BisExceeded(fr.current_its, fr.max_its)
             THEN [g EXCEPT !.pc = "raised", !.exc = "ConvergenceError"]
             ELSE [g EXCEPT !.current_its = @ + 1]

\* line 86
BisReturn(fr) == [fr EXCEPT !.pc = "returned"]

BisOutcome(fr) ==
    CASE fr.pc = "returned" -> Returned(PyFloat(fr.new_x))
      [] fr.pc = "raised" -> Raised(fr.exc)
      [] OTHER -> Running

\* bisection as a function of its arguments: the loop run to its end
RECURSIVE BisRun(_, _)
BisRun(ff, fr) ==
    IF fr.pc # "loop" THEN fr
    ELSE IF BisContinue(ff, fr.eps, fr.new_x) THEN BisRun(ff, BisBody(ff, fr))
    ELSE BisReturn(fr)

bisection(ff, x0, x1, e, m) == BisOutcome(BisRun(ff, BisEnter(x0, x1, e, m)))

(***************************************************************************)
(* solve                                                                   *)
(***************************************************************************)
\* the value of the call returned
SolveAfterTry_Returns(v) == PyFloat(v)

\* line 121: the value of the call is not bound and the function falls off
\* its end
SolveAfterTry(v) == PyNone

\* the fallback called with Newton's cap
SolveFallbackArgs_NewtonCap ==
    [x_0 |-> x_0, x_1 |-> x_1, eps |-> eps, max_its |-> max_its_n]

\* line 123: the arguments of the fallback call
SolveFallbackArgs == [x_0 |-> x_0, x_1 |-> x_1, eps |-> eps, max_its |-> max_its_b]

SolveIdle == [pc |-> "idle", outcome |-> Running]

(***************************************************************************)
(* Initial states: the arguments of the calls, drawn from the input space; *)
(* no call has been made.                                                  *)
(***************************************************************************)
Init ==
    /\ f \in Funcs
    /\ df \in Derivs
    /\ x_0 \in Points
    /\ x_1 \in Points
    /\ eps \in Tolerances
    /\ max_its_n \in NewtonCaps
    /\ max_its_b \in BisectionCaps
    /\ nr = NRIdle
    /\ bis = BisIdle
    /\ sv = SolveIdle

(***************************************************************************)
(* Actions.                                                                *)
(***************************************************************************)
\* a direct call of newton_raphson(f, df, x_0, eps, max_its_n)
Call_Newton ==
    /\ nr.pc = "idle"
    /\ bis.pc # "loop"
    /\ nr' = NREnter(f, df, x_0, eps, max_its_n)
    /\ UNCHANGED <<inputs, bis, sv>>

\* line 36 holds: lines 37-41
NR_Loop ==
    /\ nr.pc = "loop"
    /\ NRContinue(nr.eps, nr.x, nr.new_x)
    /\ nr' = NRBody(f, df, nr)
    /\ UNCHANGED <<inputs, bis, sv>>

\* line 36 fails: line 42
NR_Return ==
    /\ nr.pc = "loop"
    /\ ~NRContinue(nr.eps, nr.x, nr.new_x)
    /\ nr' = NRReturn(nr)
    /\ UNCHANGED <<inputs, bis, sv>>

\* a direct call of bisection(f, x_0, x_1, eps, max_its_b)
Call_Bisection ==
    /\ bis.pc = "idle"
    /\ nr.pc # "loop"
    /\ bis' = BisEnter(x_0, x_1, eps, max_its_b)
    /\ UNCHANGED <<inputs, nr, sv>>

\* line 74 holds: lines 75-85
Bis_Loop ==
    /\ bis.pc = "loop"
    /\ BisContinue(f, bis.eps, bis.new_x)
    /\ bis' = BisBody(f, bis)
    /\ UNCHANGED <<inputs, nr, sv>>

\* line 74 fails: line 86
Bis_Return ==
    /\ bis.pc = "loop"
    /\ ~BisContinue(f, bis.eps, bis.new_x)
    /\ bis' = BisReturn(bis)
    /\ UNCHANGED <<inputs, nr, sv>>

\* lines 120-121: solve enters the try block and calls newton_raphson
Solve_Try ==
    /\ sv.pc = "idle"
    /\ nr' = NREnter(f, df, x_0, eps, max_its_n)
    /\ sv' = [sv EXCEPT !.pc = "try"]
    /\ UNCHANGED <<inputs, bis>>

\* newton_raphson returned: solve runs off its end
Solve_NewtonReturned ==
    /\ sv.pc = "try"
    /\ nr.pc = "returned"
    /\ sv' = [pc |-> "done", outcome |-> Returned(SolveAfterTry(nr.new_x))]
    /\ UNCHANGED <<inputs, nr, bis>>

\* lines 122-123: ConvergenceError is caught and bisection is called
Solve_Except ==
    /\ sv.pc = "try"
    /\ nr.pc = "raised"
    /\ nr.exc = "ConvergenceError"
    /\ LET a == SolveFallbackArgs
       IN  bis' = BisEnter(a.x_0, a.x_1, a.eps, a.max_its)
    /\ sv' = [sv EXCEPT !.pc = "except"]
    /\ UNCHANGED <<inputs, nr>>

\* line 122: any other exception of newton_raphson is not caught
Solve_Propagate ==
    /\ sv.pc = "try"
    /\ nr.pc = "raised"
    /\ nr.exc # "ConvergenceError"
    /\ sv' = [pc |-> "done", outcome |-> Raised(nr.exc)]
    /\ UNCHANGED <<inputs, nr, bis>>

\* line 123: return bisection(...), or its exception leaves solve
Solve_BisectionDone ==
    /\ sv.pc = "except"
    /\ bis.pc \in {"returned", "raised"}
    /\ sv' = [pc |-> "done", outcome |-> BisOutcome(bis)]
    /\ UNCHANGED <<inputs, nr, bis>>

\* one call of solve(f, df, x_0, x_1, eps, max_its_n, max_its_b)
Next ==
    \/ Solve_Try
    \/ NR_Loop
    \/ NR_Return
    \/ Solve_NewtonReturned
    \/ Solve_Except
    \/ Solve_Propagate
    \/ Bis_Loop
    \/ Bis_Return
    \/ Solve_BisectionDone

\* the two base solvers called directly, each once, in either order; the
\* calls are synchronous, so one starts only when the other is not running
NextBase ==
    \/ Call_Newton
    \/ NR_Loop
    \/ NR_Return
    \/ Call_Bisection
    \/ Bis_Loop
    \/ Bis_Return

Spec == Init /\ [][Next]_vars

SpecBase == Init /\ [][NextBase]_vars

(***************************************************************************)
(* Properties.                                                             *)
(***************************************************************************)
Sign(v) == IF v[1] > 0 THEN 1 ELSE IF v[1] < 0 THEN -1 ELSE 0

Last(q) == q[Len(q)]

Done(fr) == fr.pc \in {"returned", "raised"}

C2_FallbackIsBisection ==
    (sv.pc = "done" /\ nr.pc = "raised" /\ nr.exc = "ConvergenceError") =>
        sv.outcome = bisection(f, x_0, x_1, eps, max_its_b)

C2_Witness ==
    /\ sv.pc = "done"
    /\ nr.exc = "ConvergenceError"
    /\ sv.outcome.kind = "return"
    /\ Len(bis.mids) >= 2
    /\ max_its_n # max_its_b

\* the other two outcomes of the fallback are reached as well
C2_ValueErrorReached ==
    sv.pc = "done" /\ nr.exc = "ConvergenceError" /\ sv.outcome = Raised("ValueError")

C2_ConvergenceErrorReached ==
    /\ sv.pc = "done"
    /\ nr.exc = "ConvergenceError"
    /\ sv.outcome = Raised("ConvergenceError")

\* C3: a value x returned by bisection has abs(f(x)) <= eps, and is x_0 or the
\* last midpoint computed.
C3_BisectionResult ==
    bis.pc = "returned" =>
        /\ RLe(RAbs(F(f, bis.new_x)), eps)
        /\ IF bis.mids = <<>> THEN bis.new_x = x_0 ELSE bis.new_x = Last(bis.mids)

C3_Witness ==
    /\ bis.pc = "returned"
    /\ Len(bis.mids) >= 2
    /\ Sign(F(f, bis.new_x)) = -1

\* C4: a value new_x returned by newton_raphson is the last iterate computed,
\* new_x = x_prev - f(x_prev)/df(x_prev), and abs(x_prev - new_x) <= eps.
C4_NewtonResult ==
    nr.pc = "returned" =>
        /\ nr.new_x = Last(nr.iterates)
        /\ NewtonStep(f, df, nr.x) = [ok |-> TRUE, v |-> nr.new_x]
        /\ RLe(RAbs(RSub(nr.x, nr.new_x)), eps)

C4_Witness ==
    /\ nr.pc = "returned"
    /\ Len(nr.iterates) >= 2
    /\ Sign(RSub(nr.x, nr.new_x)) = -1

SameSignEnds == RGt(RMul(F(f, x_0), F(f, x_1)), Zero)

\* C5 as stated: whenever f(x_0) * f(x_1) > 0, bisection raises ValueError; it
\* neither returns nor raises ConvergenceError.
C5_Original ==
    (Done(bis) /\ SameSignEnds) => (bis.pc = "raised" /\ bis.exc = "ValueError")

\* C5 amended: whenever f(x_0) * f(x_1) > 0 and abs(f(x_0)) > eps, bisection
\* raises ValueError, in its first pass through the loop, before any midpoint
\* is computed; it neither returns nor raises ConvergenceError.
C5_SameSignRaises ==
    (Done(bis) /\ SameSignEnds /\ RGt(RAbs(F(f, x_0)), eps)) =>
        /\ bis.pc = "raised"
        /\ bis.exc = "ValueError"
        /\ bis.mids = <<>>

C5_Witness ==
    /\ bis.pc = "raised"
    /\ bis.exc = "ValueError"
    /\ SameSignEnds
    /\ RGt(RAbs(F(f, x_0)), eps)
    /\ x_0 # x_1

\* the first Newton step from x_0 is defined and longer than eps, and df is not
\* zero at the point it reaches
FirstStepTooLong ==
    LET s == NewtonStep(f, df, x_0)
    IN  /\ s.ok
        /\ NRContinue(eps, x_0, s.v)
        /\ DF(df, s.v)[1] # 0

\* x_0 and x_1 bracket, and neither x_0 nor the first midpoint is within eps
FirstMidpointTooFar ==
    /\ ~SameSignEnds
    /\ RGt(RAbs(F(f, x_0)), eps)
    /\ RGt(RAbs(F(f, Midpoint(x_0, x_1))), eps)

\* C6: with max_its = 0, newton_raphson raises ConvergenceError whenever its
\* first step is longer than eps, and bisection raises ConvergenceError
\* whenever the ends bracket and neither x_0 nor the first midpoint is within
\* eps of a root.
C6_ZeroCapRaises ==
    /\ (Done(nr) /\ max_its_n = 0 /\ FirstStepTooLong) =>
          (nr.pc = "raised" /\ nr.exc = "ConvergenceError")
    /\ (Done(bis) /\ max_its_b = 0 /\ FirstMidpointTooFar) =>
          (bis.pc = "raised" /\ bis.exc = "ConvergenceError")

C6_Witness ==
    /\ max_its_n = 0
    /\ max_its_b = 0
    /\ FirstStepTooLong
    /\ FirstMidpointTooFar
    /\ nr.exc = "ConvergenceError"
    /\ bis.exc = "ConvergenceError"

\* C7: a call of newton_raphson computes at most max_its Newton steps and a
\* call of bisection at most max_its midpoints.
C7_AtMostMaxIts ==
    /\ Len(nr.iterates) <= max_its_n
    /\ Len(bis.mids) <= max_its_b

\* what the code keeps to: max_its + 2 steps, and that many are taken
C7_AtMostMaxItsPlusTwo ==
    /\ Len(nr.iterates) <= max_its_n + 2
    /\ Len(bis.mids) <= max_its_b + 2

C7_PlusTwoReached ==
    /\ Len(nr.iterates) = max_its_n + 2
    /\ Len(bis.mids) = max_its_b + 2

\* C8: if f(x_0) * f(x_1) <= 0, then after every pass through the loop of
\* bisection f(x_l) * f(x_r) <= 0.
C8_BracketKept ==
    (bis.pc # "idle" /\ ~SameSignEnds) => ~BisBracketBad(f, bis.x_l, bis.x_r)

C8_Witness ==
    /\ ~SameSignEnds
    /\ Len(bis.mids) >= 2
    /\ bis.x_l # x_0
    /\ bis.x_r # x_1

\* a pass through the loop of bisection that computed a midpoint
BisSplit == bis.pc = "loop" /\ Len(bis'.mids) = Len(bis.mids) + 1

ReplacesLeft == bis'.x_l = bis'.new_x /\ bis'.x_r = bis.x_r

ReplacesRight == bis'.x_r = bis'.new_x /\ bis'.x_l = bis.x_l

\* C9 as stated: the bound whose function value has the sign of f(new_x) is
\* replaced by new_x and the other is left alone; when f(new_x) = 0, x_l is
\* replaced.
C9_Original ==
    [][BisSplit =>
         LET s == Sign(F(f, bis'.new_x))
         IN  /\ (s # 0 /\ s = Sign(F(f, bis.x_l))) => ReplacesLeft
             /\ (s # 0 /\ s # Sign(F(f, bis.x_l)) /\ s = Sign(F(f, bis.x_r)))
                   => ReplacesRight
             /\ s = 0 => ReplacesLeft]_vars

\* C9 amended: x_l is replaced by new_x when f(new_x) is not zero and has the
\* sign of f(x_l); in every other case, f(new_x) = 0 included, x_r is
\* replaced; the other bound is left unchanged.
C9_ReplacedBound ==
    [][BisSplit =>
         LET s == Sign(F(f, bis'.new_x))
         IN  /\ bis'.new_x = Midpoint(bis.x_l, bis.x_r)
             /\ IF s # 0 /\ s = Sign(F(f, bis.x_l))
                THEN ReplacesLeft /\ bis'.x_l # bis.x_l
                ELSE ReplacesRight /\ (bis.x_l # bis.x_r => bis'.x_r # bis.x_r)]_vars

C9_Witness ==
    /\ bis.mids # <<>>
    /\ F(f, bis.new_x) = Zero
    /\ bis.new_x = Last(bis.mids)
    /\ bis.x_r = bis.new_x
    /\ bis.x_l = x_0
    /\ x_0 # x_1

\* C10: if abs(f(x_0)) <= eps, bisection returns x_0: no midpoint is computed
\* and the sign of the bracket is never tested, whatever x_1 and max_its are.
C10_ImmediateReturn ==
    (bis.pc # "idle" /\ RLe(RAbs(F(f, x_0)), eps)) =>
        /\ bis.pc \in {"loop", "returned"}
        /\ bis.new_x = x_0
        /\ bis.mids = <<>>
        /\ bis.checks = 0

C10_Witness ==
    /\ bis.pc = "returned"
    /\ BisOutcome(bis) = Returned(PyFloat(x_0))
    /\ RLe(RAbs(F(f, x_0)), eps)
    /\ SameSignEnds
    /\ F(f, x_0) # Zero
    /\ max_its_b = 0

TypeOK ==
    /\ nr.pc \in {"idle", "loop", "returned", "raised"}
    /\ bis.pc \in {"idle", "loop", "returned", "raised"}
    /\ sv.pc \in {"idle", "try", "except", "done"}
====
